---- MODULE Spec2Model ----
(***************************************************************************)
(* Model of the semantic multi-agent search pipeline:                      *)
(*   - src/api.py              generate_search_events / process_node       *)
(*   - src/agent_protocol.py   AgentProtocol (registration, dispatch)      *)
(*   - src/specialized_agents.py  ResearchAgent.process_message            *)
(* Three specifications share the variables: SpecApi, SpecProto and        *)
(* SpecResearch. Each one moves only the variables of its own component.   *)
(*                                                                         *)
(* Text is modelled as a sequence of string fragments, so that an f-string *)
(* is the concatenation (\o) of its fragments.                             *)
(***************************************************************************)
EXTENDS Integers, Sequences, FiniteSets, TLC

VARIABLES
  \* ---- src/api.py: one run of generate_search_events
  gen_pc,          \* position of the generator
  gen_stage,       \* index of the node being processed (1..4)
  gen_query,       \* the query argument
  events,          \* the events yielded so far, in order
  state_messages,  \* state.messages of the run
  state_context,   \* state.context of the run (set of <<key, value>>)
  node_result,     \* value returned by the last process_node call
  node_raised,     \* nodes whose reasoner.reason call raised
  \* ---- src/agent_protocol.py: one AgentProtocol
  agents,          \* self.agents: registered name -> stage instance
  messages,        \* self.state.messages
  context,         \* self.state.context (set of <<key, value>>)
  status,          \* self.state.status
  calls,           \* send_message calls that passed the check, in call order
  next_id,         \* source of fresh message_id values
  last_op,         \* the last protocol operation and its outcome
  \* ---- src/specialized_agents.py: one ResearchAgent.process_message
  r_pc,            \* position of process_message
  r_message,       \* the input message
  expand_result,   \* outcome of the query-expansion chain
  expanded_queries,\* the variant list returned by _expand_query
  search_tasks,    \* the fanned-out _conduct_search tasks
  done_order,      \* indices of the tasks in completion order
  search_results,  \* value of asyncio.gather(*search_tasks)
  rank_input,      \* the text passed to the merge/rank call
  r_response,      \* the message returned by process_message
  r_error          \* the exception raised by process_message

apiVars == <<gen_pc, gen_stage, gen_query, events, state_messages,
             state_context, node_result, node_raised>>
protoVars == <<agents, messages, context, status, calls, next_id, last_op>>
resVars == <<r_pc, r_message, expand_result, expanded_queries, search_tasks,
             done_order, search_results, rank_input, r_response, r_error>>
vars == <<apiVars, protoVars, resVars>>

None == <<"None">>

\* ------------------------------------------------------------------------
\* Bounds
\* ------------------------------------------------------------------------
MaxCalls == 2        \* send_message calls accepted by one protocol
MaxVariations == 3   \* longest variant list decoded from the reasoning output
MaxLimit == 1        \* largest limit handed to get_conversation_history

\* ------------------------------------------------------------------------
\* Input values
\* ------------------------------------------------------------------------
Queries == {<<"q1">>, <<"q2">>}
Texts == {<<"t1">>, <<"t2">>}
Errors == {<<"timeout">>}

\* ========================================================================
\* src/api.py
\* ========================================================================
Nodes == <<"analysis", "expansion", "semantics", "search">>
\* MUTANT of EventTypes: the last phase event is typed by its node name
EventTypesByNode == <<"analysis", "expansion", "semantics", "search">>

EventTypes == <<"analysis", "expansion", "semantics", "results">>
ContextKeys == <<"query_analysis", "expanded_queries", "semantic_analysis",
                 "search_results">>
StatusTexts == <<"Analyzing query...", "Expanding search terms...",
                 "Performing semantic analysis...", "Searching...">>

\* A value handed back by reasoner.reason: a str, or an object json.dumps
\* cannot encode.
ReasonValues == [kind : {"str"}, v : Texts] \cup [kind : {"object"}, v : {<<"obj">>}]

Event(type, content) == [type |-> type, content |-> content]

\* MUTANT of process_node_value: the error text leaves out the node
process_node_value_bare(node_type, outcome) ==
  IF outcome.raised
    THEN [kind |-> "str", v |-> outcome.error]
    ELSE outcome.value

\* process_node: the value of reasoner.reason, or the error text when it raises
process_node_value(node_type, outcome) ==
  IF outcome.raised
    THEN [kind |-> "str", v |-> <<"Error in ", node_type, ": ">> \o outcome.error]
    ELSE outcome.value

ReasonOutcomes ==
  [raised : {FALSE}, value : ReasonValues, error : {None}]
    \cup [raised : {TRUE}, value : {None}, error : Errors]

\* dict item assignment d[k] = v on a dict held as a set of pairs
DictSet(d, k, v) == {p \in d : p[1] # k} \cup {<<k, v>>}

ApiInit ==
  /\ gen_pc = "init"
  /\ gen_stage = 1
  /\ gen_query = None
  /\ events = <<>>
  /\ state_messages = <<>>
  /\ state_context = {}
  /\ node_result = None
  /\ node_raised = {}

\* lines 44-53: build the state, yield the starting status event
gen_start ==
  /\ gen_pc = "init"
  /\ \E query \in Queries :
       /\ gen_query' = query
       /\ state_messages' = <<[role |-> "user", content |-> query]>>
  /\ events' = Append(events, Event("status", <<"Starting analysis...">>))
  /\ gen_pc' = "status"
  /\ UNCHANGED <<gen_stage, state_context, node_result, node_raised>>
  /\ UNCHANGED <<protoVars, resVars>>

\* lines 56-57, 63-64, 74-75, 89-90: yield the status event of the stage and
\* suspend in process_node
gen_status ==
  /\ gen_pc = "status"
  /\ events' = Append(events, Event("status", <<StatusTexts[gen_stage]>>))
  /\ gen_pc' = "await"
  /\ UNCHANGED <<gen_stage, gen_query, state_messages, state_context,
                 node_result, node_raised>>
  /\ UNCHANGED <<protoVars, resVars>>

\* lines 28-39: process_node resumes with the outcome of reasoner.reason
process_node ==
  /\ gen_pc = "await"
  /\ \E outcome \in ReasonOutcomes :
       /\ node_result' = process_node_value(Nodes[gen_stage], outcome)
       /\ node_raised' = IF outcome.raised THEN node_raised \cup {gen_stage}
                                           ELSE node_raised
  /\ gen_pc' = "emit"
  /\ UNCHANGED <<gen_stage, gen_query, events, state_messages, state_context>>
  /\ UNCHANGED <<protoVars, resVars>>

\* lines 101-105: only the search stage appends to state.messages
StoreMessages(stage, result) ==
  IF stage = 4
    THEN Append(state_messages,
                [role |-> "assistant",
                 content |-> <<"Search Results:\n\n">> \o result.v])
    ELSE state_messages

\* MUTANT of gen_emit: the result is stored but its phase event is not yielded
gen_emit_without_event ==
  /\ gen_pc = "emit"
  /\ node_result.kind = "str"
  /\ state_messages' = StoreMessages(gen_stage, node_result)
  /\ state_context' = DictSet(state_context, ContextKeys[gen_stage], node_result)
  /\ IF gen_stage < 4
       THEN gen_pc' = "status" /\ gen_stage' = gen_stage + 1
       ELSE gen_pc' = "complete" /\ gen_stage' = gen_stage
  /\ UNCHANGED <<gen_query, events, node_result, node_raised>>
  /\ UNCHANGED <<protoVars, resVars>>

\* lines 58-60, 69-71, 84-86, 106-110: store the result in the context and
\* yield the phase event of the stage (json.dumps encodes the result)
gen_emit ==
  /\ gen_pc = "emit"
  /\ node_result.kind = "str"
  /\ state_messages' = StoreMessages(gen_stage, node_result)
  /\ state_context' = DictSet(state_context, ContextKeys[gen_stage], node_result)
  /\ events' = Append(events, Event(EventTypes[gen_stage], node_result.v))
  /\ IF gen_stage < 4
       THEN gen_pc' = "status" /\ gen_stage' = gen_stage + 1
       ELSE gen_pc' = "complete" /\ gen_stage' = gen_stage
  /\ UNCHANGED <<gen_query, node_result, node_raised>>
  /\ UNCHANGED <<protoVars, resVars>>

\* MUTANT of gen_except: the handler yields the error event and the run goes on
gen_except_resumes ==
  /\ gen_pc = "emit"
  /\ node_result.kind # "str"
  /\ events' = Append(events, Event("error", <<"Object is not JSON serializable">>))
  /\ gen_pc' = "complete"
  /\ UNCHANGED <<gen_stage, gen_query, state_messages, state_context,
                 node_result, node_raised>>
  /\ UNCHANGED <<protoVars, resVars>>

\* lines 115-116, reached from the json.dumps of lines 59, 70, 85, 109 when
\* the result is not encodable: the handler yields the error event and the
\* generator ends
gen_except ==
  /\ gen_pc = "emit"
  /\ node_result.kind # "str"
  /\ state_messages' = StoreMessages(gen_stage, node_result)
  /\ state_context' = DictSet(state_context, ContextKeys[gen_stage], node_result)
  /\ events' = Append(events, Event("error", <<"Object is not JSON serializable">>))
  /\ gen_pc' = "done"
  /\ UNCHANGED <<gen_stage, gen_query, node_result, node_raised>>
  /\ UNCHANGED <<protoVars, resVars>>

\* lines 112-113: yield the completion event; the generator ends
gen_complete ==
  /\ gen_pc = "complete"
  /\ events' = Append(events, Event("complete", <<"Search completed">>))
  /\ gen_pc' = "done"
  /\ UNCHANGED <<gen_stage, gen_query, state_messages, state_context,
                 node_result, node_raised>>
  /\ UNCHANGED <<protoVars, resVars>>

generate_search_events ==
  \/ gen_start
  \/ gen_status
  \/ process_node
  \/ gen_emit
  \/ gen_except
  \/ gen_complete


\* ========================================================================
\* src/agent_protocol.py
\* ========================================================================
\* Names a caller may dispatch to, and the stage instances it may register.
AgentIds == {"analyzer", "formatter"}
AnalysisAgent == [agent_id |-> "analysis_1", role |-> "analyzer"]
FormattingAgent == [agent_id |-> "format_1", role |-> "formatter"]
Instances == {AnalysisAgent, FormattingAgent}

\* The (from_agent, content, metadata) arguments of send_message; metadata is
\* None or a dict
NoMetadata == [is_none |-> TRUE, dict |-> {}]
Metadata(d) == [is_none |-> FALSE, dict |-> d]
SendArgs == {[from_agent |-> "analyzer", content |-> <<"t1">>,
              metadata |-> NoMetadata],
             [from_agent |-> "formatter", content |-> <<"t2">>,
              metadata |-> Metadata({<<"query", <<"q1">>>>})]}
ContextArgs == {{<<"k", <<"v1">>>>}}
\* The reasoning output of a single-call stage
StageOutputs == {<<"answer">>}

\* dict.get(key, default) on a dict held as a set of pairs
DictGet(d, k, default) ==
  IF \E p \in d : p[1] = k THEN (CHOOSE p \in d : p[1] = k)[2] ELSE default

\* dict.update(u): shallow key overwrite
DictUpdate(d, u) == {p \in d : ~ \E q \in u : q[1] = p[1]} \cup u

\* AgentMessage(role=..., content=..., metadata=...): message_id is fresh
AgentMessage(role, content, metadata, id) ==
  [role |-> role, content |-> content, metadata |-> metadata, message_id |-> id]

\* metadata or {}
MetadataOrEmpty(metadata) == IF metadata.is_none THEN {} ELSE metadata.dict

\* The limit argument of get_conversation_history: None or an int
NoLimit == [is_none |-> TRUE, n |-> 0]
Limit(n) == [is_none |-> FALSE, n |-> n]
LimitArgs == {NoLimit} \cup {Limit(n) : n \in 0..MaxLimit}

\* The record of a protocol operation: its name, its target name, how it
\* ended, and (where the operation has them) the sender name, the limit
\* argument and the value handed back
Op(name, target, outcome) ==
  [op |-> name, target |-> target, outcome |-> outcome,
   from_agent |-> "", limit |-> NoLimit, result |-> <<>>]

ProtoInit ==
  /\ agents = <<>>
  /\ messages = <<>>
  /\ context = {}
  /\ status = "idle"
  /\ calls = <<>>
  /\ next_id = 1
  /\ last_op = Op("init", "", "ok")

\* MUTANT of register_agent: the new stage also takes over the dispatches
\* that are suspended inside a stage
register_agent_rebinds(agent_id, agent) ==
  /\ agents' = [n \in DOMAIN agents \cup {agent_id} |->
                  IF n = agent_id THEN agent ELSE agents[n]]
  /\ calls' = [c \in 1..Len(calls) |->
                 IF calls[c].state = "running"
                   THEN [calls[c] EXCEPT !.agent = agent]
                   ELSE calls[c]]
  /\ last_op' = Op("register_agent", agent_id, "ok")
  /\ UNCHANGED <<messages, context, status, next_id>>
  /\ UNCHANGED <<apiVars, resVars>>

\* lines 38-40
register_agent(agent_id, agent) ==
  /\ agents' = [n \in DOMAIN agents \cup {agent_id} |->
                  IF n = agent_id THEN agent ELSE agents[n]]
  /\ last_op' = Op("register_agent", agent_id, "ok")
  /\ UNCHANGED <<messages, context, status, calls, next_id>>
  /\ UNCHANGED <<apiVars, resVars>>

\* MUTANT of send_message: the input message is appended before the check
send_message_append_first(from_agent, to_agent, content, metadata) ==
  /\ Len(calls) < MaxCalls
  /\ LET message == AgentMessage("assistant", content,
                                 MetadataOrEmpty(metadata), next_id)
     IN /\ messages' = Append(messages, message)
        /\ IF to_agent \notin DOMAIN agents
             THEN /\ last_op' = Op("send_message", to_agent, "ValueError: not found")
                  /\ UNCHANGED calls
             ELSE /\ last_op' = Op("send_message", to_agent, "suspended")
                  /\ calls' = Append(calls, [agent |-> agents[to_agent],
                                             message |-> message,
                                             state |-> "running",
                                             response |-> None])
  /\ next_id' = next_id + 1
  /\ UNCHANGED <<agents, context, status>>
  /\ UNCHANGED <<apiVars, resVars>>

\* MUTANT of send_message: the input message is not recorded
send_message_no_append(from_agent, to_agent, content, metadata) ==
  IF to_agent \notin DOMAIN agents
    THEN /\ last_op' = Op("send_message", to_agent, "ValueError: not found")
         /\ UNCHANGED <<agents, messages, context, status, calls, next_id>>
         /\ UNCHANGED <<apiVars, resVars>>
    ELSE /\ Len(calls) < MaxCalls
         /\ calls' = Append(calls, [agent |-> agents[to_agent],
                                    message |-> AgentMessage("assistant", content,
                                                  MetadataOrEmpty(metadata), next_id),
                                    state |-> "running",
                                    response |-> None])
         /\ next_id' = next_id + 1
         /\ last_op' = Op("send_message", to_agent, "suspended")
         /\ UNCHANGED <<agents, messages, context, status>>
         /\ UNCHANGED <<apiVars, resVars>>

\* lines 42-61: the call up to its suspension inside the stage. An
\* unregistered target raises ValueError("Agent ... not found"); otherwise the
\* input message is built and appended and the stage looked up in the table
\* starts to process it.
send_message(from_agent, to_agent, content, metadata) ==
  IF to_agent \notin DOMAIN agents
    THEN /\ last_op' = [Op("send_message", to_agent, "ValueError: not found")
                           EXCEPT !.from_agent = from_agent]
         /\ UNCHANGED <<agents, messages, context, status, calls, next_id>>
         /\ UNCHANGED <<apiVars, resVars>>
    ELSE /\ Len(calls) < MaxCalls
         /\ LET message == AgentMessage("assistant", content,
                                        MetadataOrEmpty(metadata), next_id)
            IN /\ messages' = Append(messages, message)
               /\ calls' = Append(calls, [agent |-> agents[to_agent],
                                          message |-> message,
                                          state |-> "running",
                                          response |-> None])
         /\ next_id' = next_id + 1
         /\ last_op' = [Op("send_message", to_agent, "suspended")
                           EXCEPT !.from_agent = from_agent]
         /\ UNCHANGED <<agents, context, status>>
         /\ UNCHANGED <<apiVars, resVars>>

\* MUTANT of StageResponse: the response keeps the role of the input message
StageResponseInputRole(agent, message, output, id) ==
  AgentMessage(message.role, output,
    {<<"reasoning", <<"Analysis completed: Generated a direct answer based on the search results">>>>},
    id)

\* src/specialized_agents.py lines 201-209 and 263-271: the response a
\* single-call stage builds from the reasoning output
StageResponse(agent, message, output, id) ==
  IF agent.role = "analyzer"
    THEN AgentMessage("analyzer", output,
           {<<"analysis_type",
              DictGet(message.metadata, "analysis_type", <<"comprehensive">>)>>,
            <<"reasoning", <<"Analysis completed: Generated a direct answer based on the search results">>>>},
           id)
    ELSE AgentMessage("formatter", output,
           {<<"format_type",
              DictGet(message.metadata, "format_type", <<"markdown">>)>>,
            <<"reasoning", <<"Formatting completed: Content organized with proper Markdown formatting for better readability">>>>},
           id)

\* MUTANT of send_message_returns: the response is appended to the history
send_message_returns_appending(c) ==
  /\ calls[c].state = "running"
  /\ \E output \in StageOutputs :
       LET response == StageResponse(calls[c].agent, calls[c].message,
                                     output, next_id)
       IN /\ calls' = [calls EXCEPT ![c].state = "returned",
                                    ![c].response = response]
          /\ messages' = Append(messages, response)
  /\ next_id' = next_id + 1
  /\ last_op' = Op("send_message_returns", "", "returned")
  /\ UNCHANGED <<agents, context, status>>
  /\ UNCHANGED <<apiVars, resVars>>

\* lines 61-63: the stage's process_message returns; send_message returns the
\* response to its caller
send_message_returns(c) ==
  /\ calls[c].state = "running"
  /\ \E output \in StageOutputs :
       calls' = [calls EXCEPT ![c].state = "returned",
                              ![c].response =
                                 StageResponse(calls[c].agent, calls[c].message,
                                               output, next_id)]
  /\ next_id' = next_id + 1
  /\ last_op' = Op("send_message_returns", "", "returned")
  /\ UNCHANGED <<agents, messages, context, status>>
  /\ UNCHANGED <<apiVars, resVars>>

\* MUTANT of send_message_raises: the failure is recorded in the status field
send_message_raises_marking_error(c) ==
  /\ calls[c].state = "running"
  /\ calls' = [calls EXCEPT ![c].state = "raised"]
  /\ status' = "error"
  /\ last_op' = Op("send_message_raises", "", "raised")
  /\ UNCHANGED <<agents, messages, context, next_id>>
  /\ UNCHANGED <<apiVars, resVars>>

\* MUTANT of send_message_raises: the input message is taken back out of the
\* history when the stage raises
send_message_raises_rolling_back(c) ==
  /\ calls[c].state = "running"
  /\ calls' = [calls EXCEPT ![c].state = "raised"]
  /\ messages' = SelectSeq(messages,
                    LAMBDA m : m.message_id # calls[c].message.message_id)
  /\ last_op' = Op("send_message_raises", "", "raised")
  /\ UNCHANGED <<agents, context, status, next_id>>
  /\ UNCHANGED <<apiVars, resVars>>

\* line 61: the stage's process_message raises (its reasoning call failed);
\* the exception leaves send_message
send_message_raises(c) ==
  /\ calls[c].state = "running"
  /\ calls' = [calls EXCEPT ![c].state = "raised"]
  /\ last_op' = Op("send_message_raises", "", "raised")
  /\ UNCHANGED <<agents, messages, context, status, next_id>>
  /\ UNCHANGED <<apiVars, resVars>>

\* Python's seq[start:] for any int start
PySliceFrom(seq, start) ==
  LET begin == IF start < 0
                 THEN (IF Len(seq) + start < 0 THEN 0 ELSE Len(seq) + start)
                 ELSE (IF start > Len(seq) THEN Len(seq) ELSE start)
  IN SubSeq(seq, begin + 1, Len(seq))

\* lines 67-69: the value get_conversation_history hands back
ConversationHistory(history, limit) ==
  IF ~ limit.is_none /\ limit.n # 0
    THEN PySliceFrom(history, - limit.n)
    ELSE history

\* MUTANT of get_conversation_history: the read drains the history
get_conversation_history_draining(limit) ==
  /\ last_op' = [Op("get_conversation_history", "", "ok")
                   EXCEPT !.limit = limit,
                          !.result = ConversationHistory(messages, limit)]
  /\ messages' = SubSeq(messages, 1, Len(messages) - Len(last_op'.result))
  /\ UNCHANGED <<agents, context, status, calls, next_id>>
  /\ UNCHANGED <<apiVars, resVars>>

\* lines 65-69
get_conversation_history(limit) ==
  /\ last_op' = [Op("get_conversation_history", "", "ok")
                   EXCEPT !.limit = limit,
                          !.result = ConversationHistory(messages, limit)]
  /\ UNCHANGED <<agents, messages, context, status, calls, next_id>>
  /\ UNCHANGED <<apiVars, resVars>>

\* lines 97-103: BaseAgent.get_state; no stage ever writes its own state,
\* which stays the AgentState() built at line 91
AgentOwnState(agent) ==
  [agent_id |-> agent.agent_id, role |-> agent.role,
   state |-> [messages |-> <<>>, context |-> {}, status |-> "idle"]]

\* lines 71-75
get_agent_state(agent_id) ==
  /\ last_op' = IF agent_id \notin DOMAIN agents
                  THEN Op("get_agent_state", agent_id, "ValueError: not found")
                  ELSE [Op("get_agent_state", agent_id, "ok")
                          EXCEPT !.result = <<AgentOwnState(agents[agent_id])>>]
  /\ UNCHANGED <<agents, messages, context, status, calls, next_id>>
  /\ UNCHANGED <<apiVars, resVars>>

\* lines 77-79
update_context(ctx) ==
  /\ context' = DictUpdate(context, ctx)
  /\ last_op' = Op("update_context", "", "ok")
  /\ UNCHANGED <<agents, messages, status, calls, next_id>>
  /\ UNCHANGED <<apiVars, resVars>>

\* MUTANT of clear_context: the whole conversation state is reset
clear_context_resets_state ==
  /\ context' = {}
  /\ messages' = <<>>
  /\ last_op' = Op("clear_context", "", "ok")
  /\ UNCHANGED <<agents, status, calls, next_id>>
  /\ UNCHANGED <<apiVars, resVars>>

\* lines 81-83
clear_context ==
  /\ context' = {}
  /\ last_op' = Op("clear_context", "", "ok")
  /\ UNCHANGED <<agents, messages, status, calls, next_id>>
  /\ UNCHANGED <<apiVars, resVars>>

AgentProtocol ==
  \/ \E agent_id \in AgentIds, agent \in Instances : register_agent(agent_id, agent)
  \/ \E to_agent \in AgentIds, a \in SendArgs :
       send_message(a.from_agent, to_agent, a.content, a.metadata)
  \/ \E c \in 1..Len(calls) : send_message_returns(c)
  \/ \E c \in 1..Len(calls) : send_message_raises(c)
  \/ \E limit \in LimitArgs : get_conversation_history(limit)
  \/ \E agent_id \in AgentIds : get_agent_state(agent_id)
  \/ \E ctx \in ContextArgs : update_context(ctx)
  \/ clear_context

\* ========================================================================
\* src/specialized_agents.py: ResearchAgent
\* ========================================================================
Aspects == {<<"a1">>, <<"a2">>}
SearchOutputs == {<<"s1">>, <<"s2">>}

RECURSIVE SeqsUpTo(_, _)
\* all sequences over S of length at most n
SeqsUpTo(S, n) ==
  IF n = 0 THEN {<<>>}
  ELSE LET shorter == SeqsUpTo(S, n - 1)
       IN shorter \cup {Append(q, x) : q \in {t \in shorter : Len(t) = n - 1}, x \in S}

VariationLists == SeqsUpTo(Aspects, MaxVariations)

\* What JsonOutputParser hands back when the chain does not raise: a dict
\* with or without the key "variations", a list, or another JSON value.
DecodedOutputs ==
  [kind : {"dict"}, has_variations : {TRUE}, items : VariationLists]
    \cup [kind : {"dict"}, has_variations : {FALSE}, items : {<<>>}]
    \cup [kind : {"list"}, has_variations : {FALSE}, items : VariationLists]
    \cup [kind : {"str", "number", "null"}, has_variations : {FALSE}, items : {<<>>}]

\* The messages a caller hands to process_message
ResearchMessages ==
  {AgentMessage("assistant", q, m, 1) :
     q \in Queries, m \in {{}, {<<"research_type", <<"deep">>>>}}}

\* MUTANT of Variations: a bare list is not accepted and falls to the templates
VariationsDictOnly(result, query) ==
  IF result.kind = "dict" /\ result.has_variations THEN result.items
  ELSE << query \o <<" overview and background">>,
          query \o <<" key aspects and features">>,
          query \o <<" impact and significance">>,
          query \o <<" current status and developments">> >>

\* MUTANT of Variations: every dict is read as carrying the key "variations"
VariationsAnyDict(result, query) ==
  IF result.kind = "dict" \/ result.kind = "list" THEN result.items
  ELSE << query \o <<" overview and background">>,
          query \o <<" key aspects and features">>,
          query \o <<" impact and significance">>,
          query \o <<" current status and developments">> >>

\* lines 97-111: the variant list _expand_query extracts from the decoded result
Variations(result, query) ==
  IF result.kind = "dict" /\ result.has_variations THEN result.items
  ELSE IF result.kind = "list" THEN result.items
  ELSE << query \o <<" overview and background">>,
          query \o <<" key aspects and features">>,
          query \o <<" impact and significance">>,
          query \o <<" current status and developments">> >>

\* lines 64-67: one _conduct_search coroutine per variant, in list order
SearchTasks(queries) ==
  [i \in 1..Len(queries) |->
     [aspect |-> queries[i], state |-> "running", result |-> None]]

\* lines 118-120: the content of an AIMessage, or the value itself
ResultContent(raw) == IF raw.is_ai_message THEN raw.content ELSE raw.value

RawResults(S) ==
  [is_ai_message : {TRUE}, content : S, value : {None}]
    \cup [is_ai_message : {FALSE}, content : {None}, value : S]

RECURSIVE JoinResults(_, _)
\* line 143: "\n\n".join(f"Result {i+1}:\n{result}" ...) over results[k..]
JoinResults(results, k) ==
  IF k > Len(results) THEN <<>>
  ELSE (IF k > 1 THEN <<"\n\n">> ELSE <<>>)
         \o <<"Result ", ToString(k), ":\n">> \o results[k]
         \o JoinResults(results, k + 1)

\* MUTANT of GatherResults: the results are collected in completion order
GatherResultsAsCompleted(tasks, order) ==
  [k \in 1..Len(tasks) |-> tasks[order[k]].result]

\* line 68: the value asyncio.gather hands back, one result per task in the
\* order the tasks were passed
GatherResults(tasks, order) == [i \in 1..Len(tasks) |-> tasks[i].result]

AllDone(tasks) == \A i \in 1..Len(tasks) : tasks[i].state = "done"
SomeFailed(tasks) == \E i \in 1..Len(tasks) : tasks[i].state = "failed"

\* MUTANT of GatherReady: the awaiter is woken by the first task to finish
GatherReadyFirstCompleted(tasks) ==
  \/ Len(tasks) = 0
  \/ \E i \in 1..Len(tasks) : tasks[i].state # "running"

\* line 68: asyncio.gather wakes its awaiter when every task has finished,
\* or as soon as one task has raised
GatherReady(tasks) == SomeFailed(tasks) \/ AllDone(tasks)

\* lines 50-59: process_message is called and suspends in the expansion chain
process_message(message) ==
  /\ r_pc = "idle"
  /\ r_message' = message
  /\ r_pc' = "expand"
  /\ UNCHANGED <<expand_result, expanded_queries, search_tasks, done_order,
                 search_results, rank_input, r_response, r_error>>
  /\ UNCHANGED <<apiVars, protoVars>>

\* lines 94-111 and 59-68: the expansion chain hands back a decoded result;
\* the variants are extracted and one sub-search per variant is started
expand_query_returns(result) ==
  /\ r_pc = "expand"
  /\ expand_result' = result
  /\ expanded_queries' = Variations(result, r_message.content)
  /\ search_tasks' = SearchTasks(expanded_queries')
  /\ r_pc' = "gather"
  /\ UNCHANGED <<r_message, done_order, search_results, rank_input,
                 r_response, r_error>>
  /\ UNCHANGED <<apiVars, protoVars>>

\* line 94 and 59: the reasoning call or the JSON parser raises; nothing
\* catches it, so process_message raises
expand_query_raises(error) ==
  /\ r_pc = "expand"
  /\ expand_result' = [kind |-> "raised", has_variations |-> FALSE, items |-> <<>>]
  /\ r_error' = error
  /\ r_pc' = "raised"
  /\ UNCHANGED <<r_message, expanded_queries, search_tasks, done_order,
                 search_results, rank_input, r_response>>
  /\ UNCHANGED <<apiVars, protoVars>>

\* MUTANT of conduct_search_returns: the sub-search also records its result in
\* the shared context
conduct_search_returns_shared(i, raw) ==
  /\ search_tasks[i].state = "running"
  /\ search_tasks' = [search_tasks EXCEPT ![i].state = "done",
                                          ![i].result = ResultContent(raw)]
  /\ done_order' = Append(done_order, i)
  /\ context' = DictSet(context, "last_result", ResultContent(raw))
  /\ UNCHANGED <<r_pc, r_message, expand_result, expanded_queries,
                 search_results, rank_input, r_response, r_error>>
  /\ UNCHANGED <<agents, messages, status, calls, next_id, last_op>>
  /\ UNCHANGED apiVars

\* lines 117-122: sub-search i gets its reasoning output and returns
conduct_search_returns(i, raw) ==
  /\ search_tasks[i].state = "running"
  /\ search_tasks' = [search_tasks EXCEPT ![i].state = "done",
                                          ![i].result = ResultContent(raw)]
  /\ done_order' = Append(done_order, i)
  /\ UNCHANGED <<r_pc, r_message, expand_result, expanded_queries,
                 search_results, rank_input, r_response, r_error>>
  /\ UNCHANGED <<apiVars, protoVars>>

\* line 117: the reasoning call of sub-search i raises
conduct_search_raises(i, error) ==
  /\ search_tasks[i].state = "running"
  /\ search_tasks' = [search_tasks EXCEPT ![i].state = "failed",
                                          ![i].result = error]
  /\ done_order' = Append(done_order, i)
  /\ UNCHANGED <<r_pc, r_message, expand_result, expanded_queries,
                 search_results, rank_input, r_response, r_error>>
  /\ UNCHANGED <<apiVars, protoVars>>

FirstFailed(tasks, order) ==
  order[CHOOSE k \in 1..Len(order) :
          /\ tasks[order[k]].state = "failed"
          /\ \A j \in 1..(k - 1) : tasks[order[j]].state # "failed"]

\* MUTANT of gather_resumes: failed sub-searches are dropped and the remaining
\* results are ranked
gather_resumes_dropping_failures ==
  /\ r_pc = "gather"
  /\ \A i \in 1..Len(search_tasks) : search_tasks[i].state # "running"
  /\ search_results' =
       LET kept == SelectSeq(search_tasks, LAMBDA t : t.state = "done")
       IN [i \in 1..Len(kept) |-> kept[i].result]
  /\ rank_input' = JoinResults(search_results', 1)
  /\ r_pc' = "rank"
  /\ UNCHANGED <<r_message, expand_result, expanded_queries, search_tasks,
                 done_order, r_response, r_error>>
  /\ UNCHANGED <<apiVars, protoVars>>

\* lines 68-73 and 143-147: gather resumes process_message. With a failed
\* sub-search its exception leaves process_message; otherwise the results are
\* labelled, joined and handed to the ranking chain.
gather_resumes ==
  /\ r_pc = "gather"
  /\ GatherReady(search_tasks)
  /\ IF SomeFailed(search_tasks)
       THEN /\ r_error' = search_tasks[FirstFailed(search_tasks, done_order)].result
            /\ r_pc' = "raised"
            /\ UNCHANGED <<search_results, rank_input>>
       ELSE /\ search_results' = GatherResults(search_tasks, done_order)
            /\ rank_input' = JoinResults(search_results', 1)
            /\ r_pc' = "rank"
            /\ UNCHANGED r_error
  /\ UNCHANGED <<r_message, expand_result, expanded_queries, search_tasks,
                 done_order, r_response>>
  /\ UNCHANGED <<apiVars, protoVars>>

\* lines 76-86: the response message of the research stage
ResearchResponse(message, queries, results, ranked) ==
  AgentMessage("researcher", ranked,
    {<<"query", message.content>>,
     <<"expanded_queries", queries>>,
     <<"research_type",
       DictGet(message.metadata, "research_type", <<"semantic_search">>)>>,
     <<"reasoning", <<"Research completed: ", ToString(Len(results)),
                      " results found and analyzed">>>>},
    2)

\* lines 144-152 and 73-88: the ranking chain hands back its output and
\* process_message returns the response
rank_results_returns(raw) ==
  /\ r_pc = "rank"
  /\ r_response' = ResearchResponse(r_message, expanded_queries, search_results,
                                    ResultContent(raw))
  /\ r_pc' = "returned"
  /\ UNCHANGED <<r_message, expand_result, expanded_queries, search_tasks,
                 done_order, search_results, rank_input, r_error>>
  /\ UNCHANGED <<apiVars, protoVars>>

\* line 144: the ranking chain raises
rank_results_raises(error) ==
  /\ r_pc = "rank"
  /\ r_error' = error
  /\ r_pc' = "raised"
  /\ UNCHANGED <<r_message, expand_result, expanded_queries, search_tasks,
                 done_order, search_results, rank_input, r_response>>
  /\ UNCHANGED <<apiVars, protoVars>>

ResearchAgent ==
  \/ \E message \in ResearchMessages : process_message(message)
  \/ \E result \in DecodedOutputs : expand_query_returns(result)
  \/ \E error \in Errors : expand_query_raises(error)
  \/ \E i \in 1..Len(search_tasks), raw \in RawResults(SearchOutputs) :
       conduct_search_returns(i, raw)
  \/ \E i \in 1..Len(search_tasks), error \in Errors : conduct_search_raises(i, error)
  \/ gather_resumes
  \/ \E raw \in RawResults(Texts) : rank_results_returns(raw)
  \/ \E error \in Errors : rank_results_raises(error)

\* ========================================================================
\* Specifications
\* ========================================================================
ResInit ==
  /\ r_pc = "idle"
  /\ r_message = None
  /\ expand_result = [kind |-> "none", has_variations |-> FALSE, items |-> <<>>]
  /\ expanded_queries = None
  /\ search_tasks = <<>>
  /\ done_order = <<>>
  /\ search_results = None
  /\ rank_input = None
  /\ r_response = None
  /\ r_error = None

Init == ApiInit /\ ProtoInit /\ ResInit

SpecApi == Init /\ [][generate_search_events]_vars
SpecProto == Init /\ [][AgentProtocol]_vars
SpecResearch == Init /\ [][ResearchAgent]_vars

\* One behaviour exercises the stages of one kind: either the single-call
\* stages behind a protocol, or one process_message of the research stage.
Stages ==
  \/ r_pc = "idle" /\ AgentProtocol
  \/ last_op.op = "init" /\ ResearchAgent
SpecStages == Init /\ [][Stages]_vars

\* ========================================================================
\* Properties of generate_search_events (SpecApi)
\* ========================================================================
IsTerminal(e) == e.type \in {"complete", "error"}
IsStatus(e) == e.type = "status"
IsPhaseResult(e) == ~ IsStatus(e) /\ ~ IsTerminal(e)
LastEvent == events[Len(events)]
PhaseEmitted(k) == k < gen_stage \/ (k = gen_stage /\ gen_pc \in {"complete", "done"}
                                                   /\ node_result.kind = "str")

C2_RaiseEndsInError ==
  \A k \in node_raised :
    /\ \A i \in 1..Len(events) : events[i].type # "complete"
    /\ gen_pc = "done" => LastEvent.type = "error"
    /\ \A j \in (k + 1)..4 : \A i \in 1..Len(events) : events[i].type # EventTypes[j]

\* C2 amended: a raising reasoning call produces no error event. The text
\* "Error in <node>: <exception>" is emitted as the phase result of that
\* stage, and a run whose results are all encodable ends with complete even
\* when calls raised; an error event only follows a result json.dumps rejects.
C2_RaiseIsReportedAsPhaseResult ==
  /\ \A k \in node_raised :
       PhaseEmitted(k) =>
         \E i \in 1..Len(events), e \in Errors :
           events[i] = Event(EventTypes[k], <<"Error in ", Nodes[k], ": ">> \o e)
  /\ (gen_pc = "done" /\ node_result.kind = "str") => LastEvent.type = "complete"
  /\ (gen_pc = "done" /\ LastEvent.type = "error") => gen_stage \notin node_raised

\* C2 witness: a finished run in which a reasoning call raised
C2_Witness ==
  /\ gen_pc = "done"
  /\ node_raised # {}
  /\ LastEvent.type = "complete"

\* ========================================================================
\* Properties of AgentProtocol (SpecProto)
\* ========================================================================
\* C3: a send_message to a name that is not registered fails with the
\* "not found" error, starts no stage, and leaves the history, the context
\* and the registration table as they were.
C3_UnregisteredDispatchFails ==
  [][(last_op'.op = "send_message" /\ last_op'.target \notin DOMAIN agents)
       => /\ last_op'.outcome = "ValueError: not found"
          /\ messages' = messages
          /\ context' = context
          /\ agents' = agents
          /\ calls' = calls]_vars

\* C3 witness: a dispatch was refused while history and context were not empty
C3_Witness ==
  /\ last_op.op = "send_message"
  /\ last_op.outcome = "ValueError: not found"
  /\ last_op.target \notin DOMAIN agents
  /\ Len(messages) > 0
  /\ context # {}

\* C4 as stated: when every dispatch has returned, the history holds two
\* messages per dispatch and ends with the response of the latest dispatch.
C4_TwoMessagesPerDispatch ==
  (\A c \in 1..Len(calls) : calls[c].state = "returned") =>
     /\ Len(messages) = 2 * Len(calls)
     /\ Len(calls) > 0 => messages[Len(messages)] = calls[Len(calls)].response

\* C4 amended: a dispatch appends exactly one message, its input message;
\* the response is handed to the caller and is not in the history. The history
\* holds one message per accepted dispatch, in call order.
C4_OneMessagePerDispatch ==
  /\ Len(messages) = Len(calls)
  /\ \A c \in 1..Len(calls) :
       /\ c <= Len(messages) => messages[c] = calls[c].message
       /\ calls[c].state = "returned" =>
            \A i \in 1..Len(messages) :
              messages[i].message_id # calls[c].response.message_id

\* C4 witness: two dispatches, both returned
C4_Witness ==
  /\ Len(calls) = 2
  /\ \A c \in 1..Len(calls) : calls[c].state = "returned"

\* the dispatches a history entry belongs to: as its input or as its response
Owners(m) ==
  {c \in 1..Len(calls) :
     \/ calls[c].message.message_id = m.message_id
     \/ (calls[c].state = "returned" /\ calls[c].response.message_id = m.message_id)}

\* C5: with dispatches in flight at the same time, the history keeps call
\* order: every entry belongs to one dispatch and the entries of an earlier
\* dispatch all precede the entries of a later one.
C5_HistoryInCallOrder ==
  /\ \A i \in 1..Len(messages) : Cardinality(Owners(messages[i])) = 1
  /\ \A i, j \in 1..Len(messages) :
       i < j => \A c \in Owners(messages[i]), d \in Owners(messages[j]) : c <= d

\* C5 witness: the second dispatch returned while the first is still suspended
C5_Witness ==
  /\ Len(calls) >= 2
  /\ calls[1].state = "running"
  /\ calls[2].state = "returned"
  /\ Len(messages) >= 2

\* ========================================================================
\* Properties of ResearchAgent.process_message (SpecResearch)
\* ========================================================================
NumVariants == Len(expanded_queries)
FannedOut == r_pc \notin {"idle", "expand"} /\ expand_result.kind # "raised"
RankInvoked == rank_input # None
TaskFinished(i) == search_tasks[i].state # "running"

\* the label and output of sub-search i as they appear in the merged text
LabelledResult(i) == <<"Result ", ToString(i), ":\n">> \o search_tasks[i].result

\* C6: N variants give exactly N sub-searches, the i-th for the i-th variant,
\* all of them started before any has finished; the text handed to the
\* merge/rank call is "Result 1" .. "Result N" where Result i is the output
\* of the i-th sub-search, whatever the order of completion.
C6_FanOutFanIn ==
  /\ FannedOut =>
       /\ Len(search_tasks) = NumVariants
       /\ \A i \in 1..NumVariants : search_tasks[i].aspect = expanded_queries[i]
  /\ ~ FannedOut => Len(search_tasks) = 0
  /\ RankInvoked =>
       /\ Len(rank_input) = (IF NumVariants = 0 THEN 0 ELSE 5 * NumVariants - 1)
       /\ \A i \in 1..NumVariants :
            /\ SubSeq(rank_input, 5 * i - 4, 5 * i - 1) = LabelledResult(i)
            /\ i < NumVariants => rank_input[5 * i] = "\n\n"

\* C6 witness: the merge call was made after the second sub-search finished
\* before the first, with different outputs
C6_Witness ==
  /\ r_pc = "rank"
  /\ NumVariants >= 2
  /\ done_order[1] = 2
  /\ search_tasks[1].result # search_tasks[2].result

\* C7 as stated: process_message has returned or raised only when none of
\* its sub-searches is still running.
C7_JoinBeforeReturnOrRaise ==
  r_pc \in {"returned", "raised"} =>
    \A i \in 1..Len(search_tasks) : TaskFinished(i)

\* C7 amended: the merge/rank call and the response come only after all N
\* sub-searches have completed. process_message raises with a sub-search
\* still running only when another sub-search has failed: the first failure
\* ends the wait.
C7_JoinBeforeResponse ==
  /\ (RankInvoked \/ r_pc \in {"rank", "returned"}) =>
       \A i \in 1..Len(search_tasks) : search_tasks[i].state = "done"
  /\ (r_pc = "raised" /\ \E i \in 1..Len(search_tasks) : ~ TaskFinished(i)) =>
       \E j \in 1..Len(search_tasks) : search_tasks[j].state = "failed"

\* C7 witness: a response was returned after a fan-out of at least two
C7_Witness ==
  /\ r_pc = "returned"
  /\ Len(search_tasks) >= 2

\* C8: when a sub-search has failed, the research step fails as a whole:
\* process_message is waiting to raise or has raised, the merge/rank call is
\* not made and no response is returned; the merge/rank call is only ever
\* made with all N results.
C8_SubSearchFailureFailsStage ==
  /\ (\E i \in 1..Len(search_tasks) : search_tasks[i].state = "failed") =>
       /\ r_pc \in {"gather", "raised"}
       /\ ~ RankInvoked
       /\ search_results = None
  /\ RankInvoked => Len(search_results) = NumVariants

\* C8 witness: process_message raised although other sub-searches delivered
C8_Witness ==
  /\ r_pc = "raised"
  /\ \E i \in 1..Len(search_tasks) : search_tasks[i].state = "failed"
  /\ \E i \in 1..Len(search_tasks) : search_tasks[i].state = "done"

NonConforming(result) ==
  /\ result.kind \notin {"none", "raised", "list"}
  /\ ~ (result.kind = "dict" /\ result.has_variations)

\* C9: when the decoded expansion output is neither a list nor a dict with
\* the key "variations", the variants are exactly the four templated
\* fallbacks built from the query, in the documented order (a function of the
\* query alone, hence the same list on every call).
C9_FallbackVariants ==
  NonConforming(expand_result) =>
    expanded_queries =
      << r_message.content \o <<" overview and background">>,
         r_message.content \o <<" key aspects and features">>,
         r_message.content \o <<" impact and significance">>,
         r_message.content \o <<" current status and developments">> >>

\* C9 witness: a dict without "variations" came back and four sub-searches run
C9_Witness ==
  /\ expand_result.kind = "dict"
  /\ ~ expand_result.has_variations
  /\ r_pc = "gather"
  /\ Len(search_tasks) = 4

\* C10 as stated: when the expansion call or its parser raises, the stage
\* falls back to the static variants and fans out; process_message does not
\* raise because of it.
C10_ExpansionFailureRecovered ==
  expand_result.kind = "raised" =>
    /\ r_pc # "raised"
    /\ Len(search_tasks) = 4

C12_HistoryReadIsPure ==
  [][last_op'.op = "get_conversation_history" =>
       /\ messages' = messages
       /\ context' = context
       /\ agents' = agents
       /\ calls' = calls
       /\ (/\ last_op.op = "get_conversation_history"
           /\ last_op.limit = last_op'.limit)
            => last_op'.result = last_op.result]_vars

\* C12 witness: a read with a limit handed back part of a longer history
C12_Witness ==
  /\ last_op.op = "get_conversation_history"
  /\ Len(messages) = 2
  /\ Len(last_op.result) = 1
  /\ context # {}

\* the last min(n, L) entries of a history of length L
LastN(history, n) ==
  SubSeq(history,
         (IF n > Len(history) THEN 0 ELSE Len(history) - n) + 1,
         Len(history))

\* C16 as stated: get_conversation_history(n) with n >= 0 hands back the last
\* min(n, L) messages, the empty sequence for n = 0, and every message when
\* no limit is given.
C16_LastNMessages ==
  last_op.op = "get_conversation_history" =>
    last_op.result = (IF last_op.limit.is_none
                        THEN messages
                        ELSE LastN(messages, last_op.limit.n))

\* C17: the history only grows: after every step the earlier history is a
\* prefix of the later one, so no entry is removed and the role and content
\* of an entry never change.
C17_HistoryAppendOnly ==
  [][/\ Len(messages') >= Len(messages)
     /\ \A i \in 1..Len(messages) :
          /\ messages'[i].role = messages[i].role
          /\ messages'[i].content = messages[i].content
          /\ messages'[i] = messages[i]]_vars

\* C17 witness: the context was cleared while the history held two messages
C17_Witness ==
  /\ last_op.op = "clear_context"
  /\ Len(messages) >= 2

\* C18 as stated: the input message a dispatch appends carries the role of
\* the registered stage named by from_agent.
C18_RoleOfSender ==
  (/\ last_op.op = "send_message"
   /\ last_op.outcome = "suspended"
   /\ last_op.from_agent \in DOMAIN agents)
    => messages[Len(messages)].role = agents[last_op.from_agent].role

\* ========================================================================
\* Further properties of generate_search_events (SpecApi)
\* ========================================================================
EventTypeOf(i) == events[i].type
PhaseEvents == SelectSeq(events, IsPhaseResult)

\* C13 as stated: every event has a type of the documented set.
C13_DocumentedEventTypes ==
  \A i \in 1..Len(events) :
    EventTypeOf(i) \in {"status", "research", "analysis", "formatting",
                        "results", "complete", "error"}

\* C13 amended: every event has a type of the set {status, analysis,
\* expansion, semantics, results, complete, error}; expansion and semantics
\* events are emitted, research and formatting events never are.
C13_EmittedEventTypes ==
  \A i \in 1..Len(events) :
    EventTypeOf(i) \in {"status", "analysis", "expansion", "semantics",
                        "results", "complete", "error"}

\* C13 witness: a completed run, which has emitted expansion and semantics
C13_Witness ==
  /\ gen_pc = "done"
  /\ LastEvent.type = "complete"
  /\ \E i \in 1..Len(events) : EventTypeOf(i) = "expansion"
  /\ \E i \in 1..Len(events) : EventTypeOf(i) = "semantics"

\* C14: the stages run one after the other: while the reasoning call of a
\* stage is pending or has just come back, the phase results of all earlier
\* stages and of no other stage are out, and the phase results appear in
\* stage order, one per stage.
C14_StagesSequential ==
  /\ Len(PhaseEvents) <= 4
  /\ \A i \in 1..Len(PhaseEvents) : PhaseEvents[i].type = EventTypes[i]
  /\ gen_pc \in {"status", "await", "emit"} => Len(PhaseEvents) = gen_stage - 1
  /\ gen_pc = "complete" => Len(PhaseEvents) = 4

\* C14 witness: the reasoning call of the third stage is pending
C14_Witness ==
  /\ gen_pc = "await"
  /\ gen_stage = 3

\* ========================================================================
\* Further properties of ResearchAgent.process_message (SpecResearch)
\* ========================================================================
\* C15 as stated: the variant list, and so the number of sub-searches, is
\* always 3 or 4.
C15_ThreeOrFourVariants ==
  FannedOut => (NumVariants \in {3, 4} /\ Len(search_tasks) \in {3, 4})

\* C15 amended: the fallback gives exactly 4 variants; a structured
\* response gives the decoded list as it is, of whatever length (0 included),
\* and one sub-search is started per entry.
C15_VariantCount ==
  FannedOut =>
    /\ Len(search_tasks) = NumVariants
    /\ IF NonConforming(expand_result)
         THEN NumVariants = 4
         ELSE expanded_queries = expand_result.items

\* C15 witness: an empty list was decoded and the merge call made with no
\* sub-search started
C15_Witness ==
  /\ r_pc = "rank"
  /\ expand_result.kind = "list"
  /\ NumVariants = 0
  /\ Len(search_tasks) = 0

\* ========================================================================
\* Properties of the stages' process_message (SpecStages)
\* ========================================================================
HasKey(d, k) == \E p \in d : p[1] = k
ReturnedCalls == {c \in 1..Len(calls) : calls[c].state = "returned"}

\* what a returned dispatch of a single-call stage shows
StageResponseOk(c) ==
  /\ calls[c].response.role = calls[c].agent.role
  /\ HasKey(calls[c].response.metadata, "reasoning")
  /\ calls[c].response.message_id # calls[c].message.message_id

\* what a returned research step shows
ResearchResponseOk ==
  /\ r_response.role = "researcher"
  /\ HasKey(r_response.metadata, "reasoning")
  /\ r_response.message_id # r_message.message_id
  /\ DictGet(r_response.metadata, "expanded_queries", None)
       = [i \in 1..Len(search_tasks) |-> search_tasks[i].aspect]
  /\ DictGet(r_response.metadata, "reasoning", None)
       = <<"Research completed: ", ToString(Len(search_tasks)),
           " results found and analyzed">>

\* C19: the message a stage returns is a new message whose role is the
\* stage's own and whose metadata has a "reasoning" entry; for the researcher
\* the metadata's expanded_queries is the variant list that was fanned out
\* and the reasoning note cites the number N of merged results. The input
\* message is never changed.
C19_StageResponses ==
  /\ [](/\ \A c \in ReturnedCalls : StageResponseOk(c)
        /\ r_pc = "returned" => ResearchResponseOk)
  /\ [][/\ \A c \in 1..Len(calls) : calls'[c].message = calls[c].message
        /\ r_pc # "idle" => r_message' = r_message]_vars

\* C19 witness: the research stage returned after merging at least one result
C19_Witness ==
  /\ r_pc = "returned"
  /\ Len(search_tasks) >= 1

\* C20: a sub-search that finishes writes its own result slot and nothing
\* else: not the protocol's history, context, table or dispatches, not the
\* other sub-searches, not the state of the research step. A single-call
\* stage that finishes inside a dispatch writes no protocol state and no
\* other dispatch. The gathered results are the sub-search outputs by
\* position, whatever the order of completion.
C20_SubTasksWriteNothingShared ==
  /\ [][/\ done_order' # done_order =>
             /\ UNCHANGED <<agents, messages, context, status, calls>>
             /\ UNCHANGED <<r_pc, r_message, expanded_queries, search_results,
                            rank_input, r_response, r_error>>
             /\ Len(search_tasks') = Len(search_tasks)
             /\ \E i \in 1..Len(search_tasks) :
                  \A j \in 1..Len(search_tasks) :
                    j # i => search_tasks'[j] = search_tasks[j]
        /\ \A c \in 1..Len(calls) :
             (calls[c].state = "running" /\ calls'[c].state # "running") =>
               /\ UNCHANGED <<agents, messages, context, status>>
               /\ \A d \in 1..Len(calls) : d # c => calls'[d] = calls[d]]_vars
  /\ [](RankInvoked =>
          search_results = [i \in 1..Len(search_tasks) |-> search_tasks[i].result])

\* C20 witness: a later sub-search has finished while an earlier one runs
C20_Witness ==
  /\ Len(search_tasks) >= 2
  /\ search_tasks[1].state = "running"
  /\ search_tasks[2].state = "done"

\* the history entries that are the input message of dispatch c
InputEntries(c) == {i \in 1..Len(messages) : messages[i] = calls[c].message}

\* C21: when the stage of an accepted dispatch raises, the error leaves
\* send_message and nothing is rolled back: the step changes neither the
\* history nor the context, and from then on the history holds the input
\* message of the failed dispatch exactly once and no response for it, so
\* every entry of the history is the input of a dispatch and the failed
\* dispatch has added one entry.
C21_FailedDispatchKeepsInput ==
  /\ [][\A c \in 1..Len(calls) :
          (calls[c].state = "running" /\ calls'[c].state = "raised") =>
            /\ last_op'.op = "send_message_raises"
            /\ last_op'.outcome = "raised"
            /\ messages' = messages
            /\ context' = context
            /\ calls'[c].message = calls[c].message]_vars
  /\ [](\A c \in 1..Len(calls) :
          calls[c].state = "raised" =>
            /\ Cardinality(InputEntries(c)) = 1
            /\ calls[c].response = None
            /\ Len(messages) = Len(calls)
            /\ \A i \in 1..Len(messages) :
                 \E d \in 1..Len(calls) : messages[i] = calls[d].message)

\* C21 witness: a stage has just raised while the context held an entry
C21_Witness ==
  /\ last_op.op = "send_message_raises"
  /\ \E c \in 1..Len(calls) : calls[c].state = "raised"
  /\ context # {}
  /\ Len(messages) >= 1

\* C22: the status field of the protocol's conversation state is "idle" in
\* every reachable state: no registration, dispatch, read, context update
\* or context clear writes it, whether dispatches are suspended, have
\* returned or have raised.
C22_StatusAlwaysIdle == status = "idle"

\* C22 witness: one dispatch has raised and another has returned, after a
\* context update, and the status field still reads "idle"
C22_Witness ==
  /\ status = "idle"
  /\ \E c \in 1..Len(calls) : calls[c].state = "raised"
  /\ \E c \in 1..Len(calls) : calls[c].state = "returned"
  /\ context # {}
  /\ DOMAIN agents = AgentIds

====
